---- MODULE Spec2Model ----
(***************************************************************************)
(* Model of certainti.py: the retail schema (create_tables), the two      *)
(* triggers (create_triggers), the bulk import (load_xlsx_to_db), the      *)
(* update / deletion demonstrations and the reports, over PostgreSQL at    *)
(* its default isolation level READ COMMITTED (psycopg2 opens one          *)
(* transaction per connection and the code never enables autocommit).      *)
(*                                                                         *)
(* Committed table contents are the variables named after the tables.      *)
(* What a transaction has written and not yet committed is kept apart      *)
(* (ustock/lock for product rows, ins for order_items rows, target/audited   *)
(* for an employee deletion) and reaches the tables only at its commit.    *)
(*                                                                         *)
(* Lines 294-522 of the source are dedented out of insert_sample_data;     *)
(* they are modelled as the body of that function, which is what the       *)
(* statements are.                                                         *)
(***************************************************************************)
EXTENDS Integers, Sequences, FiniteSets, TLC

\* ------------------------------------------------------------------ bounds
\* Largest stock a replenishment may reach (caps the stock counter).
MaxStock == 2
\* Largest quantity a candidate order item or a stock addition asks for.
MaxQty == 2
\* Most rows one import file (one transaction) inserts.
MaxRows == 2
\* Most records the audit log holds before employee deletions stop.
MaxAudit == 2

\* Rows of the recursive query's result beyond which no iteration is taken.
MaxHierarchy == 4

\* SQL NULL of an INT column (identifiers of the model are all >= 1).
NULL == 0

\* Concurrent database sessions: one run of the script, or any other client.
Clients == {"c1", "c2"}
ProductIds == {1, 2}
CustomerIds == {1, 2}
OrderItemIds == {1, 2}
EmployeeIds == {201, 202, 206}

\* Quantities an import file or a client may put in a candidate row.
Quantities == 0..MaxQty

\* Quantities a caller may pass to sp_AddProductStock.
StockAdditions == (0 - 1)..MaxQty

\* Candidate order_items rows (order_item_id, order_id, product_id, quantity):
\* item i belongs to order i, and every candidate orders product 1, so that
\* concurrent sessions meet on one products row; product 2 is only replenished.
Rows ==
  {[order_item_id |-> i, order_id |-> i, product_id |-> 1, quantity |-> q] :
     i \in OrderItemIds, q \in Quantities}

NoRow == [order_item_id |-> NULL, order_id |-> NULL, product_id |-> NULL, quantity |-> 0]

\* ------------------------------------------------------------- sample data
\* insert_sample_data, scaled down: two customers, three orders, two
\* products, three employees.
SampleCustomers == CustomerIds

\* customers.email and customers.phone (both UNIQUE NOT NULL) of the sample rows.
SampleContact(k) ==
  IF k = 1 THEN [email |-> "rekha.pillai@example.com", phone |-> "9123456789"]
  ELSE [email |-> "sanjay.kapoor@example.com", phone |-> "9234567890"]

\* The columns of a customer_id that has no row.
NoContact == [email |-> "", phone |-> ""]

\* Emails and phones a caller may pass: those of the sample rows and one more.
Emails == {"rekha.pillai@example.com", "sanjay.kapoor@example.com", "priya.sharma@example.com"}
Phones == {"9123456789", "9234567890", "9876543210"}

\* Before display_monthly_sales_pivot_crosstab has run.
NoPivot == [stage |-> "idle", header |-> <<>>, rows |-> <<>>]

\* Candidate payments rows of an import file (payment_id, order_id).
PaymentRows == [payment_id : {1, 2}, order_id : {1, 2, 3}]

\* Names of the sample stores 1 and 2; stores.name is not UNIQUE.
StoreNames == {"MegaMart - Chennai", "MegaMart - Mumbai"}
SampleStoreName(s) == IF s = 1 THEN "MegaMart - Chennai" ELSE "MegaMart - Mumbai"
ReportStoreIds == {1, 2}

\* Order dates as the report compares them: EXTRACT(YEAR ...), EXTRACT(MONTH ...).
OrderDates ==
  {[year |-> 2024, month |-> 1], [year |-> 2024, month |-> 2], [year |-> 2023, month |-> 1]}

\* order_items.price, CHECK (price >= 0).
Prices == {0, 1, 2}

\* The rows of orders JOIN order_items the report can meet: an order item with
\* the store and the date of its order; CHECK (quantity > 0) holds of it.
SoldLines ==
  [order_item_id : OrderItemIds, store_id : ReportStoreIds, order_date : OrderDates,
   price : Prices, quantity : {q \in Quantities : q > 0}]

\* No order item, the sample store names, no report yet.
NoReport ==
  [name |-> [s \in ReportStoreIds |-> SampleStoreName(s)], lines |-> {},
   stage |-> "idle", p_year |-> NULL, p_month |-> NULL, rows |-> <<>>]

\* recent: order_date >= CURRENT_DATE - INTERVAL '2 years' when the deletion
\* demonstration runs.  Customer 1 has an old order (1) and a recent one (2);
\* customer 2 has only an old one (3).
SampleOrders ==
  { [order_id |-> 1, customer_id |-> 1, recent |-> FALSE],
    [order_id |-> 2, customer_id |-> 1, recent |-> TRUE],
    [order_id |-> 3, customer_id |-> 2, recent |-> FALSE] }

\* Candidate orders rows of an import file.
OrderRows == [order_id : {1, 2, 3}, customer_id : CustomerIds, recent : {TRUE}]

SampleStock(p) == IF p = 1 THEN 2 ELSE 1

\* Products of category 'Electronics' (product 2, 'Bluetooth Earphones').
Electronics == {2}

\* The columns of an employees row other than manager_id, by employee_id.
EmpName(e) == IF e = 201 THEN "Anil Sharma" ELSE IF e = 202 THEN "Sunita Patel" ELSE "Suman Reddy"
EmpRole(e) == IF e = 206 THEN "Cashier" ELSE "Manager"
EmpStore(e) == IF e = 202 THEN 2 ELSE 1
EmpSalary(e) == IF e = 201 THEN 80000 ELSE IF e = 202 THEN 78000 ELSE 38000

Employee(e, m) ==
  [employee_id |-> e, name |-> EmpName(e), role |-> EmpRole(e), store_id |-> EmpStore(e),
   salary |-> EmpSalary(e), manager_id |-> m]

SampleEmployees == {Employee(201, NULL), Employee(202, NULL), Employee(206, 201)}

\* Candidate employees rows of an import file.
EmployeeRows == {Employee(e, m) : e \in EmployeeIds, m \in EmployeeIds \cup {NULL}}

\* Shipments rows written by demonstrate_data_updates (shipment_id, product_id, quantity).
Shipments == { [shipment_id |-> 101, product_id |-> 1, quantity |-> 1] }

VARIABLES
  schema,         \* schema objects present: "tables", "triggers", "procedures"
  customers,      \* committed customers (ids)
  orders,         \* committed orders
  products,       \* committed products (ids)
  stock,          \* committed products.stock
  ustock,         \* newest row version of products.stock (uncommitted while locked)
  lock,           \* which session holds the row lock of a product ("none")
  order_items,    \* committed order_items rows
  employees,      \* committed employees rows
  employee_audit, \* committed employee_audit rows, in audit_id order
  pc,             \* each session's position in its transaction
  cur,            \* the row of the INSERT statement a session is executing
  ins,            \* order_items rows a session has inserted and not committed
  target,         \* the employee a session's DELETE statement names
  audited,        \* employee_audit rows a session has inserted and not committed
  result,         \* how a session's last transaction ended
  hierarchy,      \* the rows display_employee_hierarchy fetched last
  contact,        \* committed customers.email and customers.phone, by customer_id
  called,         \* the customer procedure called last and how the CALL ended
  monthly_sales,  \* committed monthly_sales rows
  pivot,          \* display_monthly_sales_pivot_crosstab: its stage and the rows fetched
  sales_report,   \* sp_GenerateSalesReport: the rows its query reads and the rows it reported
  payments,       \* committed payments rows
  main,           \* one run of the script: where it stands, its connection, its input, its exit status
  cte,            \* the recursive query of display_employee_hierarchy while the server evaluates it
  passed          \* the customer whose NOT EXISTS test in sp_DeleteCustomer has passed, the DELETE yet to run

vars == <<schema, customers, orders, products, stock, ustock, lock, order_items,
          employees, employee_audit, pc, cur, ins, target, audited, result, hierarchy,
          contact, called, monthly_sales, pivot, sales_report,
          payments, main, cte, passed>>

\* Everything but the run of the script: the database and its sessions.
database == <<schema, customers, orders, products, stock, ustock, lock, order_items,
              employees, employee_audit, pc, cur, ins, target, audited, result,
              hierarchy, contact, called, monthly_sales, pivot, sales_report, payments>>

\* The operations modelled statement by statement, which the actions that
\* model an operation as one step leave alone.
steps == <<main, cte, passed>>

\* The pivot report's table and output.
reports == <<monthly_sales, pivot, sales_report>>
\* State no transaction of a session writes.
catalog == <<schema, customers, orders, products, contact, called, reports, payments>>
\* The employee side of the database.
staff == <<employees, employee_audit, target, audited, hierarchy>>
\* The order side of a session's uncommitted work.
sales == <<stock, ustock, lock, order_items, cur, ins>>

Outcome(kind, p) == [kind |-> kind, product_id |-> p]

\* A CALL of customer procedure proc for customer id and how it ended.
Called(proc, id, outcome) == [proc |-> proc, id |-> id, outcome |-> outcome]

\* ---------------------------------------------------------------- variants
\* Faulty variants of definitions below, one fault each.  A property that is
\* said to rest on a definition is violated once the variant stands in for it.

\* products_stock_check off by one: CHECK (stock >= -1).
StockAboveMinusOne(s) == s >= 0 - 1

\* products dropped its CHECK constraint.
UncheckedStock(s) == TRUE

\* prevent_out_of_stock_orders without its IF ... RAISE EXCEPTION.
NeverRaises(c, r) == FALSE

\* The trigger's UPDATE outlives the rollback of the transaction around it.
KeptStock(c) == [p \in ProductIds |-> IF lock[p] = c THEN ustock[p] ELSE stock[p]]

\* log_deleted_employee leaving manager_id out of its INSERT.
LogWithoutManager(OLD) ==
  [ row |-> [employee_id |-> OLD.employee_id, name |-> OLD.name, role |-> OLD.role,
             store_id |-> OLD.store_id, salary |-> OLD.salary, manager_id |-> NULL],
    proceed |-> TRUE ]

\* A commit that replaces employee_audit by the transaction's rows.
ReplacedAudit(c) == audited[c]

\* The trigger's INSERT outlives the rollback of the transaction around it.
LeakedAudit(c) == employee_audit \o audited[c]

\* The recursive member selecting eh.level in place of eh.level + 1.
SameLevel(eh) == eh.level

\* The query without its recursive member: the anchor rows alone.
AnchorOnly(E, work) == work

\* Variant of AddedStock: the quantity is added twice.
AddedTwice(p, q) == stock[p] + q + q

\* Variant of Cascaded: the referencing rows stay when their order goes.
NotCascaded(S) == S

\* ------------------------------------------------------------ pure helpers
RECURSIVE SumQty(_, _)
\* Total quantity the rows of set S ask of product p.
SumQty(S, p) ==
  IF S = {} THEN 0
  ELSE LET r == CHOOSE x \in S : TRUE
       IN (IF r.product_id = p THEN r.quantity ELSE 0) + SumQty(S \ {r}, p)

EmployeeIdsOf(E) == {e.employee_id : e \in E}

\* The employees row with identifier e.
EmployeeRow(e) == CHOOSE x \in employees : x.employee_id = e

\* The direct reports of employee e.
Reports(e) == {x.employee_id : x \in {y \in employees : y.manager_id = e /\ y.employee_id # e}}

\* ------------------------------------------------- order side: constraints
\* The stock a statement of session c reads: its own uncommitted row version,
\* otherwise the committed one (READ COMMITTED).
VisibleStock(c, p) == IF lock[p] = c THEN ustock[p] ELSE stock[p]

\* CHECK (stock >= 0) of products.
products_stock_check(s) == s >= 0

\* CHECK (quantity > 0) of order_items.
order_items_quantity_check(q) == q > 0

\* The IF of prevent_out_of_stock_orders.  A product that does not exist makes
\* the subquery NULL, the comparison NULL and the IF not taken.
NotEnoughStock(c, r) ==
  /\ r.product_id \in products
  /\ VisibleStock(c, r.product_id) < r.quantity

\* UPDATE products SET stock = stock - NEW.quantity of the trigger.
ReducedStock(c, r) == VisibleStock(c, r.product_id) - r.quantity

\* What is left of the INSERT statement after the BEFORE trigger: the CHECK,
\* the primary key, then the foreign keys; "ok" when the row goes in.
InsertError(c, r) ==
  IF ~order_items_quantity_check(r.quantity) THEN "order_items_quantity_check"
  ELSE IF \E x \in order_items \cup ins[c] : x.order_item_id = r.order_item_id
    THEN "order_items_pkey"
  ELSE IF ~(\E o \in orders : o.order_id = r.order_id) THEN "order_items_order_id_fkey"
  ELSE IF r.product_id \notin products THEN "order_items_product_id_fkey"
  ELSE "ok"

\* No other session holds an uncommitted row with this primary key (the
\* unique index makes the INSERT wait for that session to end).
PkeyFree(c, r) ==
  \A d \in Clients \ {c} : \A x \in ins[d] : x.order_item_id # r.order_item_id

\* Committed stock once session c's transaction is rolled back: the row
\* versions it wrote are dead.
RolledBackStock(c) == stock

\* Committed order_items once session c's transaction is rolled back.
RolledBackItems(c) == order_items

\* Committed employee_audit once session c's transaction is rolled back: the
\* trigger's INSERT belongs to the transaction of the DELETE.
RolledBackAudit(c) == employee_audit

\* Committed stock once session c commits: its row versions become current.
CommittedStock(c) == [p \in ProductIds |-> IF lock[p] = c THEN ustock[p] ELSE stock[p]]

\* Committed employees once session c commits: the row it deleted is gone
\* and ON DELETE SET NULL has cleared manager_id of its direct reports.
CommittedEmployees(c) ==
  IF target[c] = NULL \/ pc[c] # "open" THEN employees
  ELSE { IF x.manager_id = target[c] THEN [x EXCEPT !.manager_id = NULL] ELSE x :
           x \in {y \in employees : y.employee_id # target[c]} }

\* Committed employee_audit once session c commits.
CommittedAudit(c) == employee_audit \o audited[c]

\* ------------------------------------------------------------ transactions
\* A session's state once its transaction has ended.
EndTransaction(c, kind, p) ==
  /\ lock' = [q \in ProductIds |-> IF lock[q] = c THEN "none" ELSE lock[q]]
  /\ pc' = [pc EXCEPT ![c] = "idle"]
  /\ cur' = [cur EXCEPT ![c] = NoRow]
  /\ ins' = [ins EXCEPT ![c] = {}]
  /\ target' = [target EXCEPT ![c] = NULL]
  /\ audited' = [audited EXCEPT ![c] = <<>>]
  /\ result' = [result EXCEPT ![c] = Outcome(kind, p)]

\* The transaction of session c ends without commit (the except branch of
\* load_xlsx_to_db, then conn.close()): nothing it wrote survives.
Abort(c, kind, p) ==
  /\ stock' = RolledBackStock(c)
  /\ order_items' = RolledBackItems(c)
  /\ employee_audit' = RolledBackAudit(c)
  /\ ustock' = [q \in ProductIds |-> IF lock[q] = c THEN stock'[q] ELSE ustock[q]]
  /\ EndTransaction(c, kind, p)
  /\ UNCHANGED <<catalog, employees, hierarchy>>

\* conn.commit(): everything the transaction wrote becomes visible together.
Commit(c) ==
  /\ pc[c] = "open"
  /\ stock' = CommittedStock(c)
  /\ order_items' = order_items \cup ins[c]
  /\ employees' = CommittedEmployees(c)
  /\ employee_audit' = CommittedAudit(c)
  /\ ustock' = ustock
  /\ EndTransaction(c, "committed", NULL)
  /\ UNCHANGED <<catalog, hierarchy>>

\* The session ends before its commit (connection closed, deadlock victim).
Rollback(c) ==
  /\ pc[c] \in {"update", "delete", "open"}
  /\ Abort(c, "rollback", NULL)

\* ------------------------------------------------- order side: the INSERT
\* cursor.execute(INSERT INTO order_items ...) for the next row of the file;
\* the BEFORE INSERT trigger fires and runs its first statement, the check.
prevent_out_of_stock_orders(c, r) ==
  /\ {"tables", "triggers"} \subseteq schema
  /\ pc[c] \in {"idle", "open"}
  /\ target[c] = NULL
  /\ Cardinality(ins[c]) < MaxRows
  /\ IF NotEnoughStock(c, r)
       THEN Abort(c, "InsufficientStock", r.product_id)
       ELSE /\ pc' = [pc EXCEPT ![c] = "update"]
            /\ cur' = [cur EXCEPT ![c] = r]
            /\ result' = [result EXCEPT ![c] = Outcome("none", NULL)]
            /\ UNCHANGED <<catalog, staff, stock, ustock, lock, order_items, ins>>

\* The row goes into the session's uncommitted rows.
PutRow(c, r) ==
  /\ ins' = [ins EXCEPT ![c] = ins[c] \cup {r}]
  /\ pc' = [pc EXCEPT ![c] = "open"]
  /\ cur' = [cur EXCEPT ![c] = NoRow]

\* The trigger's second statement, the UPDATE of products (it waits for the
\* row lock and then works on the newest committed row version), then the
\* rest of the INSERT statement.
check_stock_before_order(c) ==
  /\ pc[c] = "update"
  /\ LET r == cur[c]
         p == r.product_id
     IN /\ p \in products => lock[p] \in {"none", c}
        /\ PkeyFree(c, r)
        /\ IF p \in products /\ ~products_stock_check(ReducedStock(c, r))
             THEN Abort(c, "products_stock_check", NULL)
           ELSE IF InsertError(c, r) # "ok"
             THEN Abort(c, InsertError(c, r), NULL)
           ELSE /\ ustock' = [ustock EXCEPT ![p] = ReducedStock(c, r)]
                /\ lock' = [lock EXCEPT ![p] = c]
                /\ PutRow(c, r)
                /\ UNCHANGED <<catalog, staff, stock, order_items, result>>

\* The same INSERT while check_stock_before_order is not installed: the
\* constraints alone decide.
InsertWithoutTrigger(c, r) ==
  /\ "tables" \in schema
  /\ "triggers" \notin schema
  /\ pc[c] \in {"idle", "open"}
  /\ Cardinality(ins[c]) < MaxRows
  /\ PkeyFree(c, r)
  /\ IF InsertError(c, r) # "ok"
       THEN Abort(c, InsertError(c, r), NULL)
       ELSE /\ PutRow(c, r)
            /\ result' = [result EXCEPT ![c] = Outcome("none", NULL)]
            /\ UNCHANGED <<catalog, staff, stock, ustock, lock, order_items>>

\* --------------------------------------------------------- replenishment
\* SET stock = stock + p_quantity of sp_AddProductStock.
AddedStock(p, q) == stock[p] + q

\* The error a CALL sp_AddProductStock(p, q) ends with ("none": it returns).
\* The procedure has no RAISE; CHECK (stock >= 0) rejects a result below zero.
AddProductStockError(p, q) ==
  IF products_stock_check(AddedStock(p, q)) THEN "none" ELSE "products_stock_check"

\* Variant: the procedure's UPDATE does not wait for the row lock and writes
\* over the row version a transaction in progress holds.
AddProductStockUnlocked(p, q) ==
  /\ {"tables", "procedures"} \subseteq schema
  /\ p \in products
  /\ stock[p] + q <= MaxStock
  /\ stock' = IF AddProductStockError(p, q) = "none"
                THEN [stock EXCEPT ![p] = AddedStock(p, q)] ELSE stock
  /\ ustock' = IF lock[p] = "none" THEN [ustock EXCEPT ![p] = stock'[p]] ELSE ustock
  /\ UNCHANGED <<catalog, staff, lock, order_items, pc, cur, ins, result>>

\* CALL sp_AddProductStock(p, q): one UPDATE, then COMMIT.  The UPDATE waits
\* for the row lock.
sp_AddProductStock(p, q) ==
  /\ {"tables", "procedures"} \subseteq schema
  /\ p \in products
  /\ lock[p] = "none"
  /\ stock[p] + q <= MaxStock
  /\ stock' = IF AddProductStockError(p, q) = "none"
                THEN [stock EXCEPT ![p] = AddedStock(p, q)] ELSE stock
  /\ ustock' = [ustock EXCEPT ![p] = stock'[p]]
  /\ UNCHANGED <<catalog, staff, lock, order_items, pc, cur, ins, result>>

\* The shipment of product p (UPDATE ... FROM joins one Shipments row to it).
ShipmentOf(p) == CHOOSE s \in Shipments : s.product_id = p

ShippedProducts == {s.product_id : s \in Shipments}

\* demonstrate_data_updates.  Step 1 (prices of Electronics) and step 2
\* (hire_date and salary of employees 1..10, none of which is an employee of
\* the model) write nothing the model holds; step 1 waits for the row locks
\* of the Electronics products.  Step 3 refills Shipments and adds each
\* shipment's quantity to its product's stock; a shipment for a product that
\* does not exist fails the foreign key and ends the function.
demonstrate_data_updates ==
  /\ "tables" \in schema
  /\ \A p \in (Electronics \cup ShippedProducts) \cap products : lock[p] = "none"
  /\ \A p \in ShippedProducts : stock[p] + ShipmentOf(p).quantity <= MaxStock
  /\ stock' = IF ShippedProducts \subseteq products
                THEN [p \in ProductIds |->
                        IF p \in ShippedProducts
                          THEN stock[p] + ShipmentOf(p).quantity ELSE stock[p]]
                ELSE stock
  /\ ustock' = [p \in ProductIds |-> IF p \in ShippedProducts THEN stock'[p] ELSE ustock[p]]
  /\ UNCHANGED <<catalog, staff, lock, order_items, pc, cur, ins, result>>

\* ------------------------------------------------------------- deletions
\* Customers with no order in the last two years (step 1 of demonstrate_data_deletion).
InactiveCustomers ==
  {k \in customers : ~(\E o \in orders : o.customer_id = k /\ o.recent)}

\* The order step 2 of demonstrate_data_deletion deletes.
order_id_to_delete == 1

\* Orders left by steps 1 and 2: ON DELETE CASCADE from customers, then the
\* DELETE of one order.
OrdersAfterDeletion ==
  {o \in orders : o.customer_id \notin InactiveCustomers /\ o.order_id # order_id_to_delete}

\* ON DELETE CASCADE from orders: the rows of order_items or payments left
\* when the orders of steps 1 and 2 are gone.
Cascaded(S) == {r \in S : \E o \in OrdersAfterDeletion : o.order_id = r.order_id}

\* employee_audit after TRUNCATE TABLE employee_audit.
Truncated == <<>>

\* Variant: the deletion gives the quantities of the order items it removes
\* back to their products.
DeletionRestocking ==
  /\ "tables" \in schema
  /\ customers' = customers \ InactiveCustomers
  /\ contact' = [k \in CustomerIds |-> IF k \in customers' THEN contact[k] ELSE NoContact]
  /\ orders' = OrdersAfterDeletion
  /\ order_items' = Cascaded(order_items)
  /\ payments' = Cascaded(payments)
  /\ stock' = [p \in ProductIds |->
                 IF \E r \in order_items \ Cascaded(order_items) : r.product_id = p
                   THEN stock[p] + 1 ELSE stock[p]]
  /\ employee_audit' = IF "triggers" \in schema THEN Truncated ELSE employee_audit
  /\ UNCHANGED <<schema, products, ustock, lock, employees, pc, cur, ins,
                 target, audited, result, hierarchy, called, reports>>

\* demonstrate_data_deletion: delete the inactive customers, delete order 1
\* (both cascade to order_items), truncate employee_audit.  The deletes wait
\* for sessions holding uncommitted order_items rows of the orders they
\* remove; TRUNCATE waits for sessions holding uncommitted audit rows and,
\* while create_triggers has not created the table, fails after the first
\* two steps have been committed.
demonstrate_data_deletion ==
  /\ "tables" \in schema
  /\ \A c \in Clients : \A r \in ins[c] :
       \E o \in OrdersAfterDeletion : o.order_id = r.order_id
  /\ \A c \in Clients : audited[c] = <<>>
  /\ customers' = customers \ InactiveCustomers
  /\ contact' = [k \in CustomerIds |-> IF k \in customers' THEN contact[k] ELSE NoContact]
  /\ orders' = OrdersAfterDeletion
  /\ order_items' = Cascaded(order_items)
  /\ payments' = Cascaded(payments)
  /\ employee_audit' = IF "triggers" \in schema THEN Truncated ELSE employee_audit
  /\ UNCHANGED <<schema, products, stock, ustock, lock, employees, pc, cur, ins,
                 target, audited, result, hierarchy, called, reports>>

\* ---------------------------------------------------- customer procedures
\* The sequences of the database: audit_id SERIAL of employee_audit creates
\* one; customer_id is INT PRIMARY KEY and no statement creates a sequence.
Sequences == IF "triggers" \in schema THEN {"employee_audit_audit_id_seq"} ELSE {}

\* UNIQUE on customers.email and customers.phone: the constraint a row of
\* customer k with email e and phone ph violates ("none": neither).
CustomersUnique(k, e, ph) ==
  IF \E j \in customers \ {k} : contact[j].email = e THEN "customers_email_key"
  ELSE IF \E j \in customers \ {k} : contact[j].phone = ph THEN "customers_phone_key"
  ELSE "none"

\* The error a CALL sp_AddCustomer(name, e, ph, city) ends with ("none": it
\* returns).  nextval('customers_customer_id_seq') names a relation that has
\* to exist before the row is formed and checked.
AddCustomerError(e, ph) ==
  IF "customers_customer_id_seq" \notin Sequences THEN "undefined_table"
  ELSE CustomersUnique(NULL, e, ph)

\* CALL sp_AddCustomer: INSERT with the next value of the sequence, COMMIT.
sp_AddCustomer(e, ph) ==
  /\ {"tables", "procedures"} \subseteq schema
  /\ called' = Called("sp_AddCustomer", NULL, AddCustomerError(e, ph))
  /\ IF AddCustomerError(e, ph) = "none"
       THEN \E k \in CustomerIds \ customers :
              /\ customers' = customers \cup {k}
              /\ contact' = [contact EXCEPT ![k] = [email |-> e, phone |-> ph]]
       ELSE UNCHANGED <<customers, contact>>
  /\ UNCHANGED <<schema, orders, products, payments, reports, sales, staff, pc, result>>

\* The error a CALL sp_UpdateCustomer(k, name, e, ph, city) ends with.  The
\* procedure has no RAISE: an UPDATE that finds no row is no error, one that
\* finds the row is checked against UNIQUE.
UpdateCustomerError(k, e, ph) ==
  IF k \in customers THEN CustomersUnique(k, e, ph) ELSE "none"

\* CALL sp_UpdateCustomer: UPDATE ... WHERE customer_id = p_customer_id, COMMIT.
sp_UpdateCustomer(k, e, ph) ==
  /\ {"tables", "procedures"} \subseteq schema
  /\ called' = Called("sp_UpdateCustomer", k, UpdateCustomerError(k, e, ph))
  /\ contact' = IF k \in customers /\ UpdateCustomerError(k, e, ph) = "none"
                  THEN [contact EXCEPT ![k] = [email |-> e, phone |-> ph]]
                  ELSE contact
  /\ UNCHANGED <<schema, customers, orders, products, payments, reports, sales, staff,
                 pc, result>>

\* The error a CALL sp_DeleteCustomer(k) ends with: RAISE EXCEPTION 'Customer
\* cannot be deleted because they have existing orders.' unless NOT EXISTS
\* (SELECT 1 FROM orders WHERE customer_id = p_customer_id).
DeleteCustomerError(k) ==
  IF \E o \in orders : o.customer_id = k THEN "raise_exception" ELSE "none"

\* CALL sp_DeleteCustomer: the test, then DELETE and COMMIT.
sp_DeleteCustomer(k) ==
  /\ {"tables", "procedures"} \subseteq schema
  /\ called' = Called("sp_DeleteCustomer", k, DeleteCustomerError(k))
  /\ customers' = IF DeleteCustomerError(k) = "none" THEN customers \ {k} ELSE customers
  /\ contact' = [j \in CustomerIds |-> IF j \in customers' THEN contact[j] ELSE NoContact]
  /\ UNCHANGED <<schema, orders, products, payments, reports, sales, staff, pc, result>>

\* CALL sp_DeleteCustomer statement by statement.  First the IF: NOT EXISTS
\* (SELECT 1 FROM orders WHERE customer_id = p_customer_id) on the orders
\* committed by now; the ELSE branch raises and the CALL is over.
DeleteCustomerTest(k) ==
  /\ {"tables", "procedures"} \subseteq schema
  /\ passed = NULL
  /\ IF DeleteCustomerError(k) = "none"
       THEN passed' = k /\ called' = called
       ELSE passed' = NULL /\ called' = Called("sp_DeleteCustomer", k, DeleteCustomerError(k))
  /\ UNCHANGED <<schema, customers, orders, products, payments, contact, reports, sales,
                 staff, pc, result, main, cte>>

\* The orders ON DELETE CASCADE leaves when customer k is deleted.
OrdersWithout(k) == {o \in orders : o.customer_id # k}

\* Then DELETE FROM customers and COMMIT: the statement works on the rows
\* committed when it runs, and the delete cascades to the customer's
\* orders, their order items and payments.  It waits for a session that
\* holds uncommitted order items of such an order.
DeleteCustomerDelete ==
  /\ passed # NULL
  /\ \A c \in Clients : \A r \in ins[c] :
       \E o \in OrdersWithout(passed) : o.order_id = r.order_id
  /\ customers' = customers \ {passed}
  /\ contact' = [j \in CustomerIds |-> IF j \in customers' THEN contact[j] ELSE NoContact]
  /\ orders' = OrdersWithout(passed)
  /\ order_items' = {r \in order_items : \E o \in orders' : o.order_id = r.order_id}
  /\ payments' = {r \in payments : \E o \in orders' : o.order_id = r.order_id}
  /\ called' = Called("sp_DeleteCustomer", passed, "none")
  /\ passed' = NULL
  /\ UNCHANGED <<schema, products, reports, stock, ustock, lock, cur, ins, staff, pc, result,
                 main, cte>>

\* Choice 6, load_xlsx_to_db into orders: a file of one row.  The primary
\* key or the foreign key to customers may reject the row.
ImportOrder(o) ==
  /\ "tables" \in schema
  /\ orders' = IF \/ \E x \in orders : x.order_id = o.order_id
                  \/ o.customer_id \notin customers
                 THEN orders ELSE orders \cup {o}
  /\ UNCHANGED <<schema, customers, products, payments, contact, called, reports, sales,
                 staff, pc, result>>

\* Choice 6, load_xlsx_to_db into customers: a file of one row.  The primary
\* key or a UNIQUE constraint may reject the row; nothing is committed then.
ImportCustomer(k, e, ph) ==
  /\ "tables" \in schema
  /\ IF k \in customers \/ CustomersUnique(k, e, ph) # "none"
       THEN UNCHANGED <<customers, contact>>
       ELSE /\ customers' = customers \cup {k}
            /\ contact' = [contact EXCEPT ![k] = [email |-> e, phone |-> ph]]
  /\ UNCHANGED <<schema, orders, products, payments, called, reports, sales, staff,
                 pc, result>>

\* Choice 6, load_xlsx_to_db into payments: a file of one row.  The primary
\* key or the foreign key to orders may reject the row.
ImportPayment(r) ==
  /\ "tables" \in schema
  /\ payments' = IF \/ \E x \in payments : x.payment_id = r.payment_id
                    \/ ~(\E o \in orders : o.order_id = r.order_id)
                   THEN payments ELSE payments \cup {r}
  /\ UNCHANGED <<schema, customers, orders, products, contact, called, reports, sales,
                 staff, pc, result>>

\* ---------------------------------------------------------- employee side
\* log_deleted_employee: the row the trigger inserts into employee_audit
\* (audit_id and deleted_at are assigned by the server) and whether it
\* returns OLD, which lets the DELETE proceed.
log_deleted_employee(OLD) ==
  [ row |-> [employee_id |-> OLD.employee_id, name |-> OLD.name, role |-> OLD.role,
             store_id |-> OLD.store_id, salary |-> OLD.salary,
             manager_id |-> OLD.manager_id],
    proceed |-> TRUE ]

\* The employees rows session d has locked: the row it deleted and the
\* direct reports ON DELETE SET NULL updated.
LockedEmployees(d) ==
  IF pc[d] = "open" /\ target[d] # NULL THEN {target[d]} \cup Reports(target[d]) ELSE {}

\* Audit rows written so far, committed or not.
AuditRows == Len(employee_audit) + Cardinality({c \in Clients : audited[c] # <<>>})

\* A client issues DELETE FROM employees WHERE employee_id = e; the scan
\* finds the row.
DeleteEmployee(c, e) ==
  /\ "tables" \in schema
  /\ pc[c] = "idle"
  /\ e \in EmployeeIdsOf(employees)
  /\ AuditRows < MaxAudit
  /\ pc' = [pc EXCEPT ![c] = "delete"]
  /\ target' = [target EXCEPT ![c] = e]
  /\ result' = [result EXCEPT ![c] = Outcome("none", NULL)]
  /\ UNCHANGED <<catalog, sales, employees, employee_audit, audited, hierarchy>>

\* The DELETE locks the row (waiting for a session that holds it), and if the
\* row is still there the BEFORE DELETE trigger fires on it and the row is
\* deleted; a row that a concurrent transaction deleted is skipped.
log_employee_deletion(c) ==
  /\ pc[c] = "delete"
  /\ LET e == target[c]
     IN /\ \A d \in Clients \ {c} : ({e} \cup Reports(e)) \cap LockedEmployees(d) = {}
        /\ IF e \notin EmployeeIdsOf(employees)
             THEN /\ EndTransaction(c, "DELETE 0", NULL)
                  /\ UNCHANGED <<catalog, stock, ustock, order_items, employees,
                                 employee_audit, hierarchy>>
             ELSE LET fired == "triggers" \in schema
                      t == log_deleted_employee(EmployeeRow(e))
                  IN /\ audited' = [audited EXCEPT ![c] =
                                      IF fired THEN Append(audited[c], t.row) ELSE audited[c]]
                     /\ target' = [target EXCEPT ![c] =
                                      IF fired => t.proceed THEN e ELSE NULL]
                     /\ pc' = [pc EXCEPT ![c] = "open"]
                     /\ UNCHANGED <<catalog, sales, employees, employee_audit, result,
                                    hierarchy>>

\* load_xlsx_to_db into employees, a file of one row: primary key, then the
\* foreign key on manager_id (a row may name itself).  The INSERT waits for a
\* session that has deleted, and not committed, the row or its manager.
ImportEmployee(r) ==
  /\ "tables" \in schema
  /\ \A d \in Clients :
       pc[d] = "open" => target[d] \notin {r.employee_id, r.manager_id} \ {NULL}
  /\ employees' =
       IF r.employee_id \in EmployeeIdsOf(employees) THEN employees
       ELSE IF r.manager_id \notin EmployeeIdsOf(employees) \cup {NULL, r.employee_id}
         THEN employees
       ELSE employees \cup {r}
  /\ UNCHANGED <<catalog, sales, employee_audit, pc, target, audited, result, hierarchy>>

\* ------------------------------------------------------------- hierarchy
RECURSIVE RowsOf(_)
\* The rows of a set, one after the other (a scan's order is unspecified).
RowsOf(S) ==
  IF S = {} THEN <<>>
  ELSE LET x == CHOOSE y \in S : TRUE IN <<x>> \o RowsOf(S \ {x})

\* A row of EmployeeHierarchy: SELECT employee_id, name, role, manager_id, level.
HierarchyRow(e, level) ==
  [employee_id |-> e.employee_id, name |-> e.name, role |-> e.role,
   manager_id |-> e.manager_id, level |-> level]

\* The level the recursive member gives a row joined to eh.
NextLevel(eh) == eh.level + 1

\* Anchor member: WHERE manager_id IS NULL, level 0.
Anchor(E) == RowsOf({HierarchyRow(e, 0) : e \in {x \in E : x.manager_id = NULL}})

\* Variant: the recursive member joined ON e.employee_id = eh.employee_id,
\* which gives every row of the working table again, one level down.
JoinedToItself(E, work) == [i \in 1..Len(work) |-> [work[i] EXCEPT !.level = NextLevel(work[i])]]

RECURSIVE Subordinates(_, _)
\* Recursive member: Employees e JOIN (working table) eh ON e.manager_id = eh.employee_id.
Subordinates(E, work) ==
  IF work = <<>> THEN <<>>
  ELSE LET eh == Head(work)
       IN RowsOf({HierarchyRow(e, NextLevel(eh)) :
                    e \in {x \in E : x.manager_id = eh.employee_id}})
          \o Subordinates(E, Tail(work))

RECURSIVE Expand(_, _)
\* UNION ALL: the working table is joined again until it comes back empty.
Expand(E, work) ==
  IF work = <<>> THEN <<>> ELSE work \o Expand(E, Subordinates(E, work))

\* ORDER BY level, employee_id: a comes no later than b.
OrderBy(a, b) ==
  \/ a.level < b.level
  \/ a.level = b.level /\ a.employee_id <= b.employee_id

RECURSIVE Place(_, _)
\* Row x put into the sorted rows s.
Place(x, s) ==
  IF s = <<>> THEN <<x>>
  ELSE IF OrderBy(x, Head(s)) THEN <<x>> \o s
  ELSE <<Head(s)>> \o Place(x, Tail(s))

RECURSIVE Sorted(_)
Sorted(s) == IF s = <<>> THEN <<>> ELSE Place(Head(s), Sorted(Tail(s)))

\* The rows cur.fetchall() returns in display_employee_hierarchy.
EmployeeHierarchy(E) == Sorted(Expand(E, Anchor(E)))

\* Variant: the rows fetched are added to those of the run before.
DisplayAccumulating ==
  /\ "tables" \in schema
  /\ hierarchy' = hierarchy \o EmployeeHierarchy(employees)
  /\ UNCHANGED <<catalog, sales, employees, employee_audit, pc, target, audited, result>>

\* display_employee_hierarchy: run the query, print the rows.
display_employee_hierarchy ==
  /\ "tables" \in schema
  /\ hierarchy' = EmployeeHierarchy(employees)
  /\ UNCHANGED <<catalog, sales, employees, employee_audit, pc, target, audited, result>>

\* The query evaluated by the server, one iteration at a time.
NoQuery == [stage |-> "none", E |-> {}, work |-> <<>>, rows |-> <<>>]

\* cur.execute: the statement reads the employees committed by now; the
\* anchor member's rows are the first working table.
anchor_member ==
  /\ "tables" \in schema
  /\ cte.stage # "running"
  /\ cte' = [stage |-> "running", E |-> employees,
             work |-> Anchor(employees), rows |-> Anchor(employees)]
  /\ UNCHANGED <<database, main, passed>>

\* One iteration: the recursive member joined to the working table gives the
\* next working table, appended to the result (UNION ALL).
recursive_member ==
  /\ cte.stage = "running"
  /\ cte.work # <<>>
  /\ Len(cte.rows) <= MaxHierarchy
  /\ cte' = [cte EXCEPT !.work = Subordinates(cte.E, cte.work),
                        !.rows = cte.rows \o Subordinates(cte.E, cte.work)]
  /\ UNCHANGED <<database, main, passed>>

\* The working table came back empty: ORDER BY level, employee_id, and
\* cur.fetchall() returns the rows.
fetchall ==
  /\ cte.stage = "running"
  /\ cte.work = <<>>
  /\ cte' = [cte EXCEPT !.stage = "done"]
  /\ hierarchy' = Sorted(cte.rows)
  /\ UNCHANGED <<catalog, sales, employees, employee_audit, pc, target, audited, result,
                 main, passed>>

\* ---------------------------------------------------------- pivot report
\* Month labels: those of the rows the report loads and one more an import
\* can bring.
Months == {"Jan", "Feb", "Mar", "Apr"}

\* ORDER BY month: month is TEXT and sorts as text.
MonthRank(m) ==
  CASE m = "Apr" -> 1 [] m = "Feb" -> 2 [] m = "Jan" -> 3 [] m = "Mar" -> 4

Sale(s, m, t) == [store_id |-> s, month |-> m, total_sales |-> t]

\* The six rows display_monthly_sales_pivot_crosstab inserts.
SalesFacts ==
  {Sale(1, "Jan", 5000), Sale(1, "Feb", 7000), Sale(1, "Mar", 8000),
   Sale(2, "Jan", 6000), Sale(2, "Feb", 7500), Sale(2, "Mar", 9000)}

\* Candidate monthly_sales rows of an import file: a month that is loaded
\* already and one that is not, for stores 1 and 2 and for store 3, which
\* has no row among the six.
SalesRows == {Sale(s, m, 1000) : s \in {1, 2, 3}, m \in {"Jan", "Apr"}}

\* The value columns of AS pivot_table (...), in the order written.
pivot_table == <<"Jan", "Feb", "Mar">>

\* header_row of the printed table.
header_row == <<"Store ID", "Jan", "Feb", "Mar">>

\* The category query: SELECT DISTINCT month ... ORDER BY month.
Categories(F) ==
  LET M == {r.month : r \in F}
  IN [i \in 1..Cardinality(M) |->
        CHOOSE m \in M : Cardinality({x \in M : MonthRank(x) < MonthRank(m)}) = i - 1]

\* The row names of the source query, ORDER BY store_id.
RowNames(F) ==
  LET S == {r.store_id : r \in F}
  IN [i \in 1..Cardinality(S) |->
        CHOOSE s \in S : Cardinality({x \in S : x < s}) = i - 1]

\* crosstab keeps, of the source rows of one store and one month, the value
\* of the row it reads last; ORDER BY store_id, month leaves the order of such
\* rows open.  Each element is one choice of the rows that stay.
LastRead(F) ==
  {w \in SUBSET F :
     \A r \in F : Cardinality({x \in w : x.store_id = r.store_id /\ x.month = r.month}) = 1}

\* crosstab(source_sql, category_sql) raises unless the categories are as
\* many as the value columns of the AS clause (an empty category list raises
\* as well).
CrosstabError(F) ==
  IF Len(Categories(F)) = Len(pivot_table) THEN "none" ELSE "invalid_return_type"

\* The value crosstab puts into value column j of the row of store s: that of
\* the j-th CATEGORY, NULL when the store has no row of that category.
CrosstabValue(F, w, s, j) ==
  LET m == Categories(F)[j]
  IN IF \E r \in w : r.store_id = s /\ r.month = m
       THEN (CHOOSE r \in w : r.store_id = s /\ r.month = m).total_sales
       ELSE NULL

\* The rows cur.fetchall() returns: store_id and the value columns.
crosstab(F, w) ==
  [i \in 1..Len(RowNames(F)) |->
     <<RowNames(F)[i]>> \o
     [j \in 1..Len(pivot_table) |-> CrosstabValue(F, w, RowNames(F)[i], j)]]

\* data_row: the cells as printed, '0.00' for a NULL.
data_row(row) ==
  [j \in 1..Len(row) |-> IF j > 1 /\ row[j] = NULL THEN 0 ELSE row[j]]

\* Choice 8, display_monthly_sales_pivot_crosstab, up to its second commit:
\* CREATE TABLE IF NOT EXISTS monthly_sales, then DELETE and the INSERT of the
\* six rows (stores 1 and 2 are sample rows; no operation deletes a store).
display_monthly_sales_pivot_crosstab ==
  /\ "tables" \in schema
  /\ pivot.stage # "loaded"
  /\ schema' = schema \cup {"monthly_sales"}
  /\ monthly_sales' = SalesFacts
  /\ pivot' = [stage |-> "loaded", header |-> <<>>, rows |-> <<>>]
  /\ UNCHANGED <<customers, orders, products, payments, contact, called, sales_report,
                 sales, staff, pc, result>>

\* The rest of display_monthly_sales_pivot_crosstab: the crosstab query on
\* the rows committed by then, fetchall and the printed table, or the
\* message of the except branch.
pivot_results ==
  /\ pivot.stage = "loaded"
  /\ \E w \in LastRead(monthly_sales) :
       pivot' = IF CrosstabError(monthly_sales) = "none"
                  THEN [stage |-> "done", header |-> header_row,
                        rows |-> [i \in 1..Len(crosstab(monthly_sales, w)) |->
                                    data_row(crosstab(monthly_sales, w)[i])]]
                  ELSE [stage |-> "failed", header |-> <<>>, rows |-> <<>>]
  /\ UNCHANGED <<schema, customers, orders, products, payments, contact, called, monthly_sales,
                 sales_report, sales, staff, pc, result>>

\* Choice 6, load_xlsx_to_db into monthly_sales: one row, committed by
\* another run of the program.
ImportSales(r) ==
  /\ "monthly_sales" \in schema
  /\ r \notin monthly_sales
  /\ monthly_sales' = monthly_sales \cup {r}
  /\ UNCHANGED <<schema, customers, orders, products, payments, contact, called, pivot,
                 sales_report, sales, staff, pc, result>>

\* ----------------------------------------------------------- sales report
\* WHERE EXTRACT(YEAR FROM o.order_date) = p_year AND EXTRACT(MONTH FROM
\* o.order_date) = p_month over stores JOIN orders JOIN order_items.
MatchingLines(T, p_year, p_month) ==
  {l \in T.lines : l.order_date.year = p_year /\ l.order_date.month = p_month}

\* SUM(oi.price * oi.quantity) over a set of joined rows.
RECURSIVE SumRevenue(_)
SumRevenue(L) ==
  IF L = {} THEN 0
  ELSE LET l == CHOOSE x \in L : TRUE
       IN l.price * l.quantity + SumRevenue(L \ {l})

\* GROUP BY s.name: the groups, and the monthly_revenue of group n.
StoreGroups(T, p_year, p_month) == {T.name[l.store_id] : l \in MatchingLines(T, p_year, p_month)}

monthly_revenue(T, p_year, p_month, n) ==
  SumRevenue({l \in MatchingLines(T, p_year, p_month) : T.name[l.store_id] = n})

\* ORDER BY monthly_revenue DESC: every order of the groups the cursor can
\* return (rows of equal revenue come in either order).
report_cursor(T, p_year, p_month) ==
  LET G == StoreGroups(T, p_year, p_month)
  IN {[i \in 1..Cardinality(G) |->
         [store_name |-> f[i], monthly_revenue |-> monthly_revenue(T, p_year, p_month, f[i])]] :
       f \in {g \in [1..Cardinality(G) -> G] :
                /\ \A i, j \in 1..Cardinality(G) : i # j => g[i] # g[j]
                /\ \A i, j \in 1..Cardinality(G) : i < j =>
                     monthly_revenue(T, p_year, p_month, g[i])
                       >= monthly_revenue(T, p_year, p_month, g[j])}}

\* CALL sp_GenerateSalesReport(p_year, p_month): the cursor loop raises one
\* notice per row.
sp_GenerateSalesReport(p_year, p_month) ==
  /\ {"tables", "procedures"} \subseteq schema
  /\ \E rows \in report_cursor(sales_report, p_year, p_month) :
       sales_report' = [sales_report EXCEPT !.stage = "done", !.p_year = p_year,
                                            !.p_month = p_month, !.rows = rows]
  /\ UNCHANGED <<schema, customers, orders, products, payments, contact, called, monthly_sales,
                 pivot, sales, staff, pc, result>>

\* ------------------------------------------------------------------ menu
\* Variant of create_tables: the tables are created afresh, without the rows
\* they held.
CreateTablesAfresh ==
  /\ schema' = schema \cup {"tables"}
  /\ employees' = {}
  /\ UNCHANGED <<customers, orders, products, payments, contact, called, reports, sales,
                 employee_audit, target, audited, hierarchy, pc, result>>

\* Choice 1, create_tables: CREATE TABLE IF NOT EXISTS.
create_tables ==
  /\ schema' = schema \cup {"tables"}
  /\ UNCHANGED <<customers, orders, products, payments, contact, called, reports, sales, staff,
                 pc, result>>

\* Choice 2, create_indexes: CREATE INDEX IF NOT EXISTS on products and on
\* orders in one transaction; without the tables the first statement fails
\* and nothing is committed.  It waits for sessions writing products.
create_indexes ==
  /\ \A c \in Clients : pc[c] = "idle"
  /\ schema' = IF "tables" \in schema THEN schema \cup {"indexes"} ELSE schema
  /\ UNCHANGED <<customers, orders, products, payments, contact, called, reports, sales,
                 staff, pc, result>>

\* Choice 3, create_views: CREATE OR REPLACE VIEW, twice, in one transaction;
\* without the tables the first statement fails and nothing is committed.
create_views ==
  /\ schema' = IF "tables" \in schema THEN schema \cup {"views"} ELSE schema
  /\ UNCHANGED <<customers, orders, products, payments, contact, called, reports, sales,
                 staff, pc, result>>

\* Choice 4, create_triggers: both functions, both triggers and employee_audit
\* in one transaction; CREATE TRIGGER on a table that does not exist fails
\* and nothing is committed.  It waits for sessions writing order_items or
\* employees.
create_triggers ==
  /\ \A c \in Clients : pc[c] = "idle"
  /\ schema' = IF "tables" \in schema THEN schema \cup {"triggers"} ELSE schema
  /\ UNCHANGED <<customers, orders, products, payments, contact, called, reports, sales, staff,
                 pc, result>>

\* A sample customers row that would go in (ON CONFLICT (customer_id) DO
\* NOTHING skips the ids present) has the email or the phone of a customer
\* present: the UNIQUE constraint raises, which ON CONFLICT (customer_id) does
\* not cover.
SampleConflict ==
  \E k \in SampleCustomers \ customers : \E j \in customers :
    \/ contact[j].email = SampleContact(k).email
    \/ contact[j].phone = SampleContact(k).phone

\* Choice 5, insert_sample_data: INSERT ... ON CONFLICT DO NOTHING, table after
\* table in one transaction; an exception leaves nothing committed.
insert_sample_data ==
  /\ "tables" \in schema
  /\ \A c \in Clients : pc[c] = "open" => target[c] = NULL
  /\ IF SampleConflict
       THEN UNCHANGED <<customers, contact, products, stock, ustock, orders, employees>>
       ELSE /\ customers' = customers \cup SampleCustomers
            /\ contact' = [k \in CustomerIds |->
                             IF k \in customers THEN contact[k] ELSE SampleContact(k)]
            /\ products' = ProductIds
            /\ stock' = [p \in ProductIds |->
                           IF p \in products THEN stock[p] ELSE SampleStock(p)]
            /\ ustock' = [p \in ProductIds |->
                            IF p \in products THEN ustock[p] ELSE SampleStock(p)]
            /\ orders' = orders \cup
                 {o \in SampleOrders : ~(\E x \in orders : x.order_id = o.order_id)}
            /\ employees' = employees \cup
                 {e \in SampleEmployees : e.employee_id \notin EmployeeIdsOf(employees)}
  /\ UNCHANGED <<schema, lock, order_items, cur, ins, employee_audit, target, audited,
                 hierarchy, pc, result, called, reports, payments>>

\* ------------------------------------------------------------------ main
\* What can be typed at a prompt that int() reads: the fourteen choices of
\* the menu, an integer outside it, and text that is no integer.
Numerals == <<"1", "2", "3", "4", "5", "6", "7", "8", "9", "10", "11", "12", "13", "14", "15">>

Typed == {Numerals[i] : i \in 1..Len(Numerals)} \cup {"x"}

\* int(s): the integer s denotes, NULL where int raises ValueError.
int(s) ==
  IF \E i \in 1..Len(Numerals) : Numerals[i] = s
    THEN CHOOSE i \in 1..Len(Numerals) : Numerals[i] = s
    ELSE NULL

\* The script before its first statement.
NotStarted == [stage |-> "start", conn |-> "unset", inp |-> NULL, ran |-> "none", exit |-> NULL]

\* The end of the script after function f returned: conn.close(), and the
\* interpreter ends with status 0.
Closed(f) == [main EXCEPT !.stage = "exited", !.ran = f, !.exit = 0]

\* An exception no except clause catches: traceback, status 1.
Traceback == [main EXCEPT !.stage = "exited", !.exit = 1]

\* conn = connect_db(): the connection, or None when psycopg2.connect raises.
connect_db ==
  /\ main.stage = "start"
  /\ \E c \in {"connection", "None"} : main' = [main EXCEPT !.stage = "connected", !.conn = c]
  /\ UNCHANGED database

\* inp = int(input(<the menu>)), the statement after connect_db.
input ==
  /\ main.stage = "connected"
  /\ \E s \in Typed :
       main' = IF int(s) = NULL THEN Traceback
               ELSE [main EXCEPT !.stage = "chosen", !.inp = int(s)]
  /\ UNCHANGED database

\* if conn: with conn None the script has no statement left.
no_connection ==
  /\ main.stage = "chosen"
  /\ main.conn = "None"
  /\ main' = [main EXCEPT !.stage = "exited", !.exit = 0]
  /\ UNCHANGED database

\* The branch of the if/elif chain for choice n, which calls function f.
Branch(n, f) ==
  /\ main.stage = "chosen"
  /\ main.conn = "connection"
  /\ main.inp = n
  /\ main' = Closed(f)

\* A function whose first statement on a table fails because create_tables
\* has not run: its except branch prints the error, nothing is written.
NoTables == "tables" \notin schema /\ UNCHANGED database

\* Choice 13, create_stored_procedures: CREATE OR REPLACE PROCEDURE, six
\* times; a plpgsql body is not checked against the tables when created.
create_stored_procedures ==
  /\ schema' = schema \cup {"procedures"}
  /\ UNCHANGED <<customers, orders, products, payments, contact, called, reports, sales, staff,
                 pc, result>>

\* Choices 1 to 5 and 13.
setup ==
  \/ Branch(1, "create_tables") /\ create_tables
  \/ Branch(2, "create_indexes") /\ create_indexes
  \/ Branch(3, "create_views") /\ create_views
  \/ Branch(4, "create_triggers") /\ create_triggers
  \/ Branch(5, "insert_sample_data") /\ (insert_sample_data \/ NoTables)
  \/ Branch(13, "create_stored_procedures") /\ create_stored_procedures

\* Choice 6: two more prompts, then load_xlsx_to_db; here a file of one row
\* for employees, or a file that cannot be read.
load_xlsx ==
  /\ Branch(6, "load_xlsx_to_db")
  /\ \/ \E r \in EmployeeRows : ImportEmployee(r)
     \/ UNCHANGED database

\* Choices 7, 9 and 10: queries; 9 and 10 print and keep nothing.
queries ==
  \/ Branch(7, "display_employee_hierarchy") /\ (display_employee_hierarchy \/ NoTables)
  \/ Branch(9, "query_data_joins") /\ UNCHANGED database
  \/ Branch(10, "task_union_union_all") /\ UNCHANGED database

\* Choice 8: the function commits its table before it runs the crosstab
\* query, so it takes two steps.
pivot_table_choice ==
  \/ /\ main.stage = "chosen"
     /\ main.conn = "connection"
     /\ main.inp = 8
     /\ display_monthly_sales_pivot_crosstab
     /\ main' = [main EXCEPT !.stage = "called", !.ran = "display_monthly_sales_pivot_crosstab"]
  \/ /\ main.stage = "called"
     /\ pivot_results
     /\ main' = Closed(main.ran)
  \/ Branch(8, "display_monthly_sales_pivot_crosstab") /\ NoTables

\* Choices 11 and 12.
demonstrations ==
  \/ Branch(11, "demonstrate_data_updates") /\ (demonstrate_data_updates \/ NoTables)
  \/ Branch(12, "demonstrate_data_deletion") /\ (demonstrate_data_deletion \/ NoTables)

\* Choice 14: export_type = int(input(...)), then an export that reads the
\* database and writes a file.
export ==
  /\ main.stage = "chosen"
  /\ main.conn = "connection"
  /\ main.inp = 14
  /\ \E s \in Typed : main' = IF int(s) = NULL THEN Traceback ELSE Closed("export")
  /\ UNCHANGED database

\* else: print("Invalid input!").
invalid_input ==
  /\ Branch(15, "none")
  /\ UNCHANGED database

\* --------------------------------------------------------- specifications
Idle ==
  /\ lock = [p \in ProductIds |-> "none"]
  /\ pc = [c \in Clients |-> "idle"]
  /\ cur = [c \in Clients |-> NoRow]
  /\ ins = [c \in Clients |-> {}]
  /\ target = [c \in Clients |-> NULL]
  /\ audited = [c \in Clients |-> <<>>]
  /\ result = [c \in Clients |-> Outcome("none", NULL)]
  /\ order_items = {}
  /\ employee_audit = <<>>
  /\ hierarchy = <<>>
  /\ called = Called("none", NULL, "none")
  /\ monthly_sales = {}
  /\ pivot = NoPivot
  /\ payments = {}
  /\ main = NotStarted
  /\ cte = NoQuery
  /\ passed = NULL

\* The database after choices 1, 4, 5 and 13: schema, triggers, sample data
\* and stored procedures in place.
Init ==
  /\ schema = {"tables", "triggers", "procedures"}
  /\ customers = SampleCustomers
  /\ contact = [k \in CustomerIds |-> SampleContact(k)]
  /\ orders = SampleOrders
  /\ products = ProductIds
  /\ stock = [p \in ProductIds |-> SampleStock(p)]
  /\ ustock = [p \in ProductIds |-> SampleStock(p)]
  /\ employees = SampleEmployees
  /\ sales_report = NoReport
  /\ Idle

\* An empty database, before any choice of the menu.
InitMenu ==
  /\ schema = {}
  /\ customers = {}
  /\ contact = [k \in CustomerIds |-> NoContact]
  /\ orders = {}
  /\ products = {}
  /\ stock = [p \in ProductIds |-> 0]
  /\ ustock = [p \in ProductIds |-> 0]
  /\ employees = {}
  /\ sales_report = NoReport
  /\ Idle

\* The database after choices 1 and 4: empty tables, triggers in place.
InitHierarchy ==
  /\ schema = {"tables", "triggers"}
  /\ customers = {}
  /\ contact = [k \in CustomerIds |-> NoContact]
  /\ orders = {}
  /\ products = {}
  /\ stock = [p \in ProductIds |-> 0]
  /\ ustock = [p \in ProductIds |-> 0]
  /\ employees = {}
  /\ sales_report = NoReport
  /\ Idle

\* Order placement, replenishment and the deletion demonstration.
Next ==
  \/ \E c \in Clients : \E r \in Rows : prevent_out_of_stock_orders(c, r) /\ UNCHANGED steps
  \/ \E c \in Clients : check_stock_before_order(c) /\ UNCHANGED steps
  \/ \E c \in Clients : Commit(c) /\ UNCHANGED steps
  \/ \E c \in Clients : Rollback(c) /\ UNCHANGED steps
  \/ \E p \in ProductIds : \E q \in StockAdditions : sp_AddProductStock(p, q) /\ UNCHANGED steps
  \/ demonstrate_data_updates /\ UNCHANGED steps
  \/ demonstrate_data_deletion /\ UNCHANGED steps

Spec == Init /\ [][Next]_vars

\* Order placement alone: sessions creating order items against the sample
\* stock, nothing else writing products.
NextOrders ==
  \/ \E c \in Clients : \E r \in Rows : prevent_out_of_stock_orders(c, r) /\ UNCHANGED steps
  \/ \E c \in Clients : check_stock_before_order(c) /\ UNCHANGED steps
  \/ \E c \in Clients : Commit(c) /\ UNCHANGED steps
  \/ \E c \in Clients : Rollback(c) /\ UNCHANGED steps

SpecOrders == Init /\ [][NextOrders]_vars

\* Employee deletion, employee import and the audit reset.
NextAudit ==
  \/ \E c \in Clients : \E e \in EmployeeIds : DeleteEmployee(c, e) /\ UNCHANGED steps
  \/ \E c \in Clients : log_employee_deletion(c) /\ UNCHANGED steps
  \/ \E c \in Clients : Commit(c) /\ UNCHANGED steps
  \/ \E c \in Clients : Rollback(c) /\ UNCHANGED steps
  \/ \E r \in SampleEmployees : ImportEmployee(r) /\ UNCHANGED steps
  \/ demonstrate_data_deletion /\ UNCHANGED steps

SpecAudit == Init /\ [][NextAudit]_vars

\* The menu run in any order on an empty database, with order placement.
NextMenu ==
  \/ create_tables /\ UNCHANGED steps
  \/ create_triggers /\ UNCHANGED steps
  \/ insert_sample_data /\ UNCHANGED steps
  \/ \E c \in Clients : \E r \in Rows : prevent_out_of_stock_orders(c, r) /\ UNCHANGED steps
  \/ \E c \in Clients : check_stock_before_order(c) /\ UNCHANGED steps
  \/ \E c \in Clients : \E r \in Rows : InsertWithoutTrigger(c, r) /\ UNCHANGED steps
  \/ \E c \in Clients : Commit(c) /\ UNCHANGED steps
  \/ \E c \in Clients : Rollback(c) /\ UNCHANGED steps

SpecMenu == InitMenu /\ [][NextMenu]_vars

\* Employee import and the hierarchy report.
NextHierarchy ==
  \/ \E r \in EmployeeRows : ImportEmployee(r) /\ UNCHANGED steps
  \/ insert_sample_data /\ UNCHANGED steps
  \/ display_employee_hierarchy /\ UNCHANGED steps

SpecHierarchy == InitHierarchy /\ [][NextHierarchy]_vars

\* The pivot report and imports into monthly_sales.
NextPivot ==
  \/ display_monthly_sales_pivot_crosstab /\ UNCHANGED steps
  \/ pivot_results /\ UNCHANGED steps
  \/ \E r \in SalesRows : ImportSales(r) /\ UNCHANGED steps

SpecPivot == Init /\ [][NextPivot]_vars

\* The customer procedures, customer import and the deletion demonstration.
NextCustomers ==
  \/ \E e \in Emails : \E ph \in Phones : sp_AddCustomer(e, ph) /\ UNCHANGED steps
  \/ \E k \in CustomerIds : \E e \in Emails : \E ph \in Phones : sp_UpdateCustomer(k, e, ph) /\ UNCHANGED steps
  \/ \E k \in CustomerIds : sp_DeleteCustomer(k) /\ UNCHANGED steps
  \/ \E k \in CustomerIds : \E e \in Emails : \E ph \in Phones : ImportCustomer(k, e, ph) /\ UNCHANGED steps
  \/ insert_sample_data /\ UNCHANGED steps
  \/ demonstrate_data_deletion /\ UNCHANGED steps

SpecCustomers == Init /\ [][NextCustomers]_vars

\* Order placement and the shipment update, nothing else writing products
\* or order_items.
NextShipments ==
  \/ \E c \in Clients : \E r \in Rows : prevent_out_of_stock_orders(c, r) /\ UNCHANGED steps
  \/ \E c \in Clients : check_stock_before_order(c) /\ UNCHANGED steps
  \/ \E c \in Clients : Commit(c) /\ UNCHANGED steps
  \/ \E c \in Clients : Rollback(c) /\ UNCHANGED steps
  \/ demonstrate_data_updates /\ UNCHANGED steps

SpecShipments == Init /\ [][NextShipments]_vars

\* Order placement and replenishment through the procedure.
NextStock ==
  \/ \E c \in Clients : \E r \in Rows : prevent_out_of_stock_orders(c, r) /\ UNCHANGED steps
  \/ \E c \in Clients : check_stock_before_order(c) /\ UNCHANGED steps
  \/ \E c \in Clients : Commit(c) /\ UNCHANGED steps
  \/ \E c \in Clients : Rollback(c) /\ UNCHANGED steps
  \/ \E p \in ProductIds : \E q \in StockAdditions : sp_AddProductStock(p, q) /\ UNCHANGED steps

SpecStock == Init /\ [][NextStock]_vars

\* The database after choices 1, 4, 5 and 13 with any stores, orders and
\* order items the imports can have loaded, as the report's query reads them.
InitReport ==
  /\ schema = {"tables", "triggers", "procedures"}
  /\ customers = SampleCustomers
  /\ contact = [k \in CustomerIds |-> SampleContact(k)]
  /\ orders = SampleOrders
  /\ products = ProductIds
  /\ stock = [p \in ProductIds |-> SampleStock(p)]
  /\ ustock = [p \in ProductIds |-> SampleStock(p)]
  /\ employees = SampleEmployees
  /\ \E n \in [ReportStoreIds -> StoreNames] :
       \E f \in [OrderItemIds -> SoldLines \cup {NoRow}] :
         /\ \A i \in OrderItemIds : f[i] # NoRow => f[i].order_item_id = i
         /\ sales_report = [NoReport EXCEPT !.name = n,
                                            !.lines = {f[i] : i \in OrderItemIds} \ {NoRow}]
  /\ Idle

\* The sales report on every such database.
NextReport ==
  \E p_year \in {2023, 2024} : \E p_month \in {1, 2} : sp_GenerateSalesReport(p_year, p_month) /\ UNCHANGED steps

SpecReport == InitReport /\ [][NextReport]_vars

\* Order placement, payment import and the deletion demonstration.
NextDeletion ==
  \/ \E c \in Clients : \E r \in Rows : prevent_out_of_stock_orders(c, r) /\ UNCHANGED steps
  \/ \E c \in Clients : check_stock_before_order(c) /\ UNCHANGED steps
  \/ \E c \in Clients : Commit(c) /\ UNCHANGED steps
  \/ \E c \in Clients : Rollback(c) /\ UNCHANGED steps
  \/ \E r \in PaymentRows : ImportPayment(r) /\ UNCHANGED steps
  \/ demonstrate_data_deletion /\ UNCHANGED steps

SpecDeletion == Init /\ [][NextDeletion]_vars

\* Schema setup in any order and any number of times on an empty database,
\* with sample data and employee imports filling the tables.
NextBootstrap ==
  \/ create_tables /\ UNCHANGED steps
  \/ create_indexes /\ UNCHANGED steps
  \/ create_views /\ UNCHANGED steps
  \/ create_triggers /\ UNCHANGED steps
  \/ insert_sample_data /\ UNCHANGED steps
  \/ \E r \in EmployeeRows : ImportEmployee(r) /\ UNCHANGED steps

SpecBootstrap == InitMenu /\ [][NextBootstrap]_vars

\* One run of the script, from connect_db to its exit, on an empty
\* database, on one with the tables and triggers, and on one with the sample
\* data.
InitMain == InitMenu \/ InitHierarchy \/ Init

NextMain ==
  \/ connect_db /\ UNCHANGED <<cte, passed>>
  \/ input /\ UNCHANGED <<cte, passed>>
  \/ no_connection /\ UNCHANGED <<cte, passed>>
  \/ setup /\ UNCHANGED <<cte, passed>>
  \/ load_xlsx /\ UNCHANGED <<cte, passed>>
  \/ queries /\ UNCHANGED <<cte, passed>>
  \/ pivot_table_choice /\ UNCHANGED <<cte, passed>>
  \/ demonstrations /\ UNCHANGED <<cte, passed>>
  \/ export /\ UNCHANGED <<cte, passed>>
  \/ invalid_input /\ UNCHANGED <<cte, passed>>

SpecMain == InitMain /\ [][NextMain]_vars

\* Every operation that writes products, order_items, orders or customers,
\* and the reports: one session placing orders, replenishment, the
\* demonstrations, customer deletion, the sales report and the sample data
\* inserted again.
NextFrame ==
  \/ \E r \in Rows : prevent_out_of_stock_orders("c1", r) /\ UNCHANGED steps
  \/ check_stock_before_order("c1") /\ UNCHANGED steps
  \/ Commit("c1") /\ UNCHANGED steps
  \/ Rollback("c1") /\ UNCHANGED steps
  \/ \E p \in ProductIds : \E q \in StockAdditions : sp_AddProductStock(p, q) /\ UNCHANGED steps
  \/ demonstrate_data_updates /\ UNCHANGED steps
  \/ demonstrate_data_deletion /\ UNCHANGED steps
  \/ \E k \in CustomerIds : sp_DeleteCustomer(k) /\ UNCHANGED steps
  \/ sp_GenerateSalesReport(2024, 1) /\ UNCHANGED steps
  \/ insert_sample_data /\ UNCHANGED steps

SpecFrame == Init /\ [][NextFrame]_vars

\* The employees table from empty: imports of any candidate row, the sample
\* rows, and deletions by one session.
NextForest ==
  \/ \E r \in EmployeeRows : ImportEmployee(r) /\ UNCHANGED steps
  \/ insert_sample_data /\ UNCHANGED steps
  \/ \E e \in EmployeeIds : DeleteEmployee("c1", e) /\ UNCHANGED steps
  \/ log_employee_deletion("c1") /\ UNCHANGED steps
  \/ Commit("c1") /\ UNCHANGED steps
  \/ Rollback("c1") /\ UNCHANGED steps

SpecForest == InitHierarchy /\ [][NextForest]_vars

\* The hierarchy query iteration by iteration, on every employees table the
\* imports and the sample rows can build.
NextResolve ==
  \/ \E r \in EmployeeRows : ImportEmployee(r) /\ UNCHANGED steps
  \/ insert_sample_data /\ UNCHANGED steps
  \/ anchor_member
  \/ recursive_member
  \/ fetchall

SpecResolve == InitHierarchy /\ [][NextResolve]_vars

\* The server goes on with a statement it has begun.
FairResolve == SpecResolve /\ WF_vars(recursive_member) /\ WF_vars(fetchall)

\* sp_DeleteCustomer statement by statement, with imports into customers
\* and orders by other runs of the program and the deletion demonstration.
NextRace ==
  \/ \E k \in CustomerIds : DeleteCustomerTest(k)
  \/ DeleteCustomerDelete
  \/ \E o \in OrderRows : ImportOrder(o) /\ UNCHANGED steps
  \/ \E k \in CustomerIds : \E e \in Emails : \E ph \in Phones : ImportCustomer(k, e, ph) /\ UNCHANGED steps
  \/ demonstrate_data_deletion /\ UNCHANGED steps

SpecRace == Init /\ [][NextRace]_vars

\* ------------------------------------------------------------- properties
\* C1 (Spec): in every committed state, whatever order items, stock
\* additions, shipment updates and deletions came before, the stock of every
\* product is greater than or equal to zero.
C1_StockNeverNegative == \A p \in ProductIds : stock[p] >= 0

\* C1 is met at its boundary: every product is sold out or written down to
\* zero, and order items have been committed.
C1_Witness == order_items # {} /\ \A p \in ProductIds : stock[p] = 0

\* C2 (Spec): an INSERT of an order item asking more of product P than the
\* stock the statement reads ends with the trigger's exception, which names
\* P; the row is in no table and no committed stock has changed.
C2_InsufficientStockRejected ==
  [][\A c \in Clients : \A r \in Rows :
       (prevent_out_of_stock_orders(c, r) /\ VisibleStock(c, r.product_id) < r.quantity)
         => /\ result'[c] = Outcome("InsufficientStock", r.product_id)
            /\ stock' = stock
            /\ order_items' = order_items
            /\ pc'[c] = "idle"
            /\ ins'[c] = {}]_vars

\* C2 happens: an attempt was refused for product 1 while stock was left.
C2_Witness ==
  \E c \in Clients : result[c] = Outcome("InsufficientStock", 1) /\ stock[1] = 1

\* C3 (Spec): an order-item creation is atomic.  The step that commits a
\* session's rows puts the rows in order_items and lowers each product's
\* stock by exactly the quantity they ask of it; a step that ends the
\* session's transaction in any other way (not enough stock, duplicate
\* order_item_id, missing order, quantity not positive, rollback) leaves
\* order_items and every stock as they were.
C3_AtomicCreation ==
  [][\A c \in Clients :
       /\ (pc[c] = "open" /\ pc'[c] = "idle" /\ result'[c].kind = "committed")
            => /\ \A p \in ProductIds : stock'[p] = stock[p] - SumQty(ins[c], p)
               /\ ins[c] \subseteq order_items'
       /\ (/\ pc'[c] = "idle"
           /\ result'[c].kind # "committed"
           /\ (pc[c] # "idle" \/ result'[c] # result[c]))
            => /\ stock' = stock
               /\ order_items' = order_items
               /\ ins'[c] = {}]_vars

\* C3 happens both ways: one session committed a row of quantity 1, the
\* other's attempt on the same order_item_id failed and stock is 2 - 1.
C3_Witness ==
  /\ result["c1"].kind = "committed"
  /\ result["c2"].kind = "order_items_pkey"
  /\ Cardinality(order_items) = 1
  /\ stock[1] = 1

\* C4 (SpecOrders): the order items committed for a product never ask for
\* more than the stock that was available, so of two concurrent creations
\* whose combined quantity exceeds it at most one commits.
C4_AtMostOneCommits == \A p \in ProductIds : SumQty(order_items, p) <= SampleStock(p)

\* C4 happens: two sessions both passed the trigger's check, one committed
\* all the stock there was and the other was stopped at the decrement.
C4_Witness ==
  \E c, d \in Clients :
    /\ result[c].kind = "committed"
    /\ result[d].kind = "products_stock_check"
    /\ SumQty(order_items, 1) = SampleStock(1)

\* C5 (SpecOrders), as stated: an attempt that loses the race for the stock
\* fails with InsufficientStock and with no other error, so no attempt ends
\* with the violation of CHECK (stock >= 0).
C5_LosersFailWithInsufficientStock ==
  \A c \in Clients : result[c].kind # "products_stock_check"

\* C6 (SpecMenu), as stated: whatever order the menu choices ran in, every
\* step that commits rows to order_items lowers each product's stock by the
\* quantity the new rows ask of it.
C6_EveryCommittedRowEnforced ==
  [][order_items' # order_items =>
       \A p \in ProductIds :
         stock'[p] = stock[p] - SumQty(order_items' \ order_items, p)]_vars

\* C7 (SpecAudit): the commit of a deletion of employee E appends exactly one
\* record to employee_audit, with E's six column values from just before
\* the deletion, and E is no longer in employees; the trigger never stops the
\* DELETE; a concurrent DELETE that finds E gone writes no record.
C7_OneMatchingAuditRecord ==
  [][\A c \in Clients :
       /\ (pc[c] = "open" /\ target[c] # NULL /\ pc'[c] = "idle"
             /\ result'[c].kind = "committed")
            => LET E == EmployeeRow(target[c])
               IN /\ employee_audit' =
                       Append(employee_audit,
                              [employee_id |-> E.employee_id, name |-> E.name,
                               role |-> E.role, store_id |-> E.store_id,
                               salary |-> E.salary, manager_id |-> E.manager_id])
                  /\ E.employee_id \notin EmployeeIdsOf(employees')
       /\ (pc[c] = "delete" /\ pc'[c] = "open") => target'[c] = target[c]
       /\ (pc[c] = "delete" /\ result'[c].kind = "DELETE 0")
            => employee_audit' = employee_audit /\ employees' = employees]_vars

\* C7 happens with two concurrent deletions of employee 206: one committed,
\* the other found no row, and there is one record, with 206's manager.
C7_Witness ==
  /\ result["c1"].kind = "committed"
  /\ result["c2"].kind = "DELETE 0"
  /\ Len(employee_audit) = 1
  /\ employee_audit[1].employee_id = 206
  /\ employee_audit[1].manager_id = 201

\* C8 (SpecAudit): every step either keeps the records of employee_audit and
\* at most appends to them, or is demonstrate_data_deletion; and that one
\* leaves employee_audit empty and employees unchanged.
C8_AppendOnly ==
  [][/\ \/ /\ Len(employee_audit') >= Len(employee_audit)
           /\ SubSeq(employee_audit', 1, Len(employee_audit)) = employee_audit
        \/ demonstrate_data_deletion
     /\ demonstrate_data_deletion => (employee_audit' = <<>> /\ employees' = employees)]_vars

\* C8 happens: employee 201 was deleted, which wrote a record, and the reset
\* has emptied employee_audit since; 201 is still gone.
C8_Witness ==
  /\ employee_audit = <<>>
  /\ EmployeeIdsOf(employees) = {202, 206}
  /\ \A c \in Clients : pc[c] = "idle"

\* C9 (SpecAudit): the step that rolls back a transaction holding a DELETE of
\* an employee leaves employee_audit and employees as they were: the
\* employee is still there and no record of its deletion exists.
C9_RollbackLeavesNoRecord ==
  [][\A c \in Clients :
       (/\ target[c] # NULL
        /\ pc[c] \in {"delete", "open"}
        /\ pc'[c] = "idle"
        /\ result'[c].kind = "rollback")
         => /\ employee_audit' = employee_audit
            /\ employees' = employees]_vars

\* C9 happens: a deletion was rolled back, every employee is present and
\* employee_audit holds nothing.
C9_Witness ==
  /\ \E c \in Clients : result[c].kind = "rollback"
  /\ employees = SampleEmployees
  /\ employee_audit = <<>>

\* C10 (SpecHierarchy): in the rows display_employee_hierarchy fetches, a row
\* without manager has level 0, any other row has the level of its manager's
\* row plus one, and the rows ascend by level and, within a level, by
\* employee_id.
C10_LevelsAndOrder ==
  /\ \A i \in 1..Len(hierarchy) :
       IF hierarchy[i].manager_id = NULL
         THEN hierarchy[i].level = 0
         ELSE \E j \in 1..Len(hierarchy) :
                /\ hierarchy[j].employee_id = hierarchy[i].manager_id
                /\ hierarchy[i].level = hierarchy[j].level + 1
  /\ \A i, j \in 1..Len(hierarchy) :
       i < j => \/ hierarchy[i].level < hierarchy[j].level
                \/ /\ hierarchy[i].level = hierarchy[j].level
                   /\ hierarchy[i].employee_id <= hierarchy[j].employee_id

\* C10 happens: the output is a chain of three employees, levels 0, 1 and 2.
C10_Witness ==
  /\ \E i \in 1..Len(hierarchy) : hierarchy[i].level = 2
  /\ Len(hierarchy) = 3

\* C11 (SpecHierarchy): the rows the hierarchy query yields for the employees
\* table hold an employee exactly once if following manager_id from it
\* reaches a row without manager, and not at all otherwise (a row that names
\* itself, or hangs below one that does).
C11_RootedExactlyOnce ==
  LET out == EmployeeHierarchy(employees)
      RECURSIVE ReachesRoot(_, _)
      ReachesRoot(e, n) ==
        LET m == EmployeeRow(e).manager_id
        IN IF m = NULL THEN TRUE
           ELSE IF n = 0 \/ m \notin EmployeeIdsOf(employees) THEN FALSE
           ELSE ReachesRoot(m, n - 1)
      Times(e) == Cardinality({i \in 1..Len(out) : out[i].employee_id = e})
  IN /\ \A e \in EmployeeIdsOf(employees) :
          Times(e) = IF ReachesRoot(e, Cardinality(employees)) THEN 1 ELSE 0
     /\ \A i \in 1..Len(out) : out[i].employee_id \in EmployeeIdsOf(employees)

\* C11 happens: of three employees one names itself as manager, and the
\* report shown holds the other two.
C11_Witness ==
  /\ Cardinality(employees) = 3
  /\ \E e \in employees : e.manager_id = e.employee_id
  /\ Len(hierarchy) = 2
  /\ hierarchy = EmployeeHierarchy(employees)

C13_FixedFactsPivot ==
  [][(pivot_results /\ monthly_sales = SalesFacts) =>
       /\ pivot'.stage = "done"
       /\ pivot'.header = <<"Store ID", "Jan", "Feb", "Mar">>
       /\ pivot'.rows = << <<1, 5000, 7000, 8000>>, <<2, 6000, 7500, 9000>> >>]_vars

\* C14 (SpecPivot): for every content of monthly_sales at the time of the
\* query the report succeeds with one row per store and one column per
\* distinct month label, each cell the sum of total_sales of its store and
\* month, zero where the pair has no row.
C14_PivotOfAnyFacts ==
  [][pivot_results =>
       LET F == monthly_sales
           RECURSIVE Sum(_)
           Sum(S) == IF S = {} THEN 0
                     ELSE LET r == CHOOSE r \in S : TRUE
                          IN r.total_sales + Sum(S \ {r})
           Cell(s, m) == Sum({r \in F : r.store_id = s /\ r.month = m})
           out == pivot'
       IN /\ out.stage = "done"
          /\ Len(out.header) = 1 + Cardinality({r.month : r \in F})
          /\ {out.header[j] : j \in 2..Len(out.header)} = {r.month : r \in F}
          /\ Len(out.rows) = Cardinality({r.store_id : r \in F})
          /\ \A s \in {r.store_id : r \in F} : \E i \in 1..Len(out.rows) :
               /\ out.rows[i][1] = s
               /\ Len(out.rows[i]) = Len(out.header)
               /\ \A j \in 2..Len(out.header) :
                    out.rows[i][j] = Cell(s, out.header[j])]_vars

\* C15 (SpecCustomers): a CALL of sp_AddCustomer with an email or a phone an
\* existing customer holds ends with the violation of the UNIQUE constraint
\* and leaves customers unchanged, and in every state no two customers share
\* an email and no two share a phone.
C15_DuplicateRejected ==
  /\ [](\A j, k \in customers :
          j # k => contact[j].email # contact[k].email /\ contact[j].phone # contact[k].phone)
  /\ [][\A e \in Emails : \A ph \in Phones :
          (/\ sp_AddCustomer(e, ph)
           /\ \E j \in customers : contact[j].email = e \/ contact[j].phone = ph)
          => /\ called'.outcome \in {"customers_email_key", "customers_phone_key"}
             /\ UNCHANGED <<customers, contact>>]_vars

\* C16 (SpecCustomers): a CALL of sp_UpdateCustomer for an id no customer has
\* ends with an error, not as a successful call that updated nothing, and
\* changes no customer.
C16_UpdateMissingFails ==
  [][\A k \in CustomerIds : \A e \in Emails : \A ph \in Phones :
       (sp_UpdateCustomer(k, e, ph) /\ k \notin customers)
       => /\ called'.outcome # "none"
          /\ UNCHANGED <<customers, contact>>]_vars

\* C17 (SpecCustomers): a CALL of sp_DeleteCustomer(k) ends with the
\* procedure's exception and changes nothing if customer k has an order that
\* is not completed, and deletes the customer otherwise, that is when k has
\* no order or only completed ones.  The orders table has no status; an
\* order counts as completed here when it is older than the two years in
\* which demonstrate_data_deletion looks for a customer's activity.
C17_DeleteUnlessActiveOrders ==
  [][\A k \in CustomerIds :
       sp_DeleteCustomer(k) =>
         IF \E o \in orders : o.customer_id = k /\ o.recent
           THEN /\ called'.outcome = "raise_exception"
                /\ UNCHANGED <<customers, contact, orders, order_items>>
           ELSE /\ called'.outcome = "none"
                /\ k \notin customers']_vars

\* C18 (Spec): a CALL of sp_AddProductStock with a quantity less than or
\* equal to zero ends with an error and leaves the stock of the product
\* unchanged; no call lowers the stock of a product.
C18_NonPositiveRejected ==
  [][\A p \in ProductIds : \A q \in StockAdditions :
       sp_AddProductStock(p, q) =>
         /\ stock'[p] >= stock[p]
         /\ q <= 0 => (AddProductStockError(p, q) # "none" /\ stock' = stock)]_vars

\* C19 (SpecStock): a CALL of sp_AddProductStock(p, q) with q > 0 for an existing
\* product raises the stock of p by exactly q and leaves the stock of every
\* other product unchanged.
C19_RaisedByExactlyQuantity ==
  [][\A p \in ProductIds : \A q \in StockAdditions :
       (q > 0 /\ sp_AddProductStock(p, q)) =>
         /\ p \in products
         /\ stock'[p] = stock[p] + q
         /\ \A o \in ProductIds \ {p} : stock'[o] = stock[o]]_vars

\* C19 witness: product 2, which no order row and no shipment names, has had
\* one unit added; product 1 is as the sample data left it.
C19_Witness ==
  /\ stock[2] = SampleStock(2) + 1
  /\ stock[1] = SampleStock(1)
  /\ order_items = {}

\* C20 (SpecShipments): however often the shipment update runs, the stock of a
\* shipped product has been raised by the quantity of its shipment at most
\* once: stock plus the quantities of the committed order items never exceeds
\* the sample stock plus that quantity.
C20_ShipmentAppliedOnce ==
  \A p \in ShippedProducts :
    stock[p] + SumQty(order_items, p) <= SampleStock(p) + ShipmentOf(p).quantity

\* C21 (SpecReport): the rows of sp_GenerateSalesReport(p_year, p_month) are,
\* for each store, the sum of quantity times order-item price over the order
\* items of the store's orders of that year and month, in descending order of
\* that revenue, with no row for a store whose revenue is zero.
C21_RevenuePerStore ==
  sales_report.stage = "done" =>
    LET T == sales_report
        rows == T.rows
        Revenue(s) == SumRevenue({l \in MatchingLines(T, T.p_year, T.p_month) : l.store_id = s})
    IN /\ \A s \in ReportStoreIds : Revenue(s) # 0 =>
            \E i \in 1..Len(rows) :
              rows[i].store_name = T.name[s] /\ rows[i].monthly_revenue = Revenue(s)
       /\ \A i \in 1..Len(rows) : \E s \in ReportStoreIds :
            /\ rows[i].store_name = T.name[s]
            /\ rows[i].monthly_revenue = Revenue(s)
            /\ Revenue(s) # 0
       /\ Len(rows) = Cardinality({s \in ReportStoreIds : Revenue(s) # 0})
       /\ \A i, j \in 1..Len(rows) : i < j => rows[i].monthly_revenue >= rows[j].monthly_revenue

C23_BootstrapIdempotent ==
  /\ [](schema \cap {"indexes", "views", "triggers"} # {} => "tables" \in schema)
  /\ [][(create_tables \/ create_indexes \/ create_views \/ create_triggers) =>
          /\ UNCHANGED <<customers, contact, orders, products, stock, order_items,
                         payments, employees, employee_audit, monthly_sales>>
          /\ schema \subseteq schema'
          /\ {"tables", "indexes", "views", "triggers"} \subseteq schema => schema' = schema]_vars

\* C23 witness: tables, indexes, views and triggers are all in place, so that
\* every further creation is a repeated one, and the tables hold the sample
\* customers and an imported employee row that is not a sample row.
C23_Witness ==
  /\ {"tables", "indexes", "views", "triggers"} \subseteq schema
  /\ customers = SampleCustomers
  /\ employees \ SampleEmployees # {}

\* C24 (SpecOrders): when the insert of a row of an import fails, the rows of
\* the same file that went in before it are committed: the failing row is
\* the only one lost.
C24_FailingRowAloneLost ==
  [][\A c \in Clients :
       (/\ pc[c] \in {"open", "update"}
        /\ pc'[c] = "idle"
        /\ result'[c].kind \notin {"committed", "rollback"})
       => ins[c] \subseteq order_items']_vars

\* C25 (SpecMain): a run whose connection cannot be established reads no
\* menu choice, calls no function of the menu and exits with a non-zero
\* status; a run with a connection exits with status 0.
C25_AbortsWithoutConnection ==
  /\ [](main.stage = "exited" => (main.exit = 0 <=> main.conn = "connection"))
  /\ [](main.conn = "None" => main.ran = "none")
  /\ [][main.conn = "None" => ~input]_vars

\* C26 (SpecFrame): the stock of a product changes only when a transaction
\* that created order items for it commits, when sp_AddProductStock is
\* called for it, or when the shipment update covers it; the deletion of
\* orders, order items and customers, the price update, the sales report, the
\* audit reset and the sample data leave every product's stock as it was.
C26_StockWrittenOnlyBySalesAndReplenishment ==
  [][LET changed == {p \in products \cap products' : stock'[p] # stock[p]} IN
       /\ changed # {} =>
            \/ \E c \in Clients :
                 Commit(c) /\ changed \subseteq {r.product_id : r \in ins[c]}
            \/ \E p \in ProductIds : \E q \in StockAdditions :
                 sp_AddProductStock(p, q) /\ changed = {p}
            \/ demonstrate_data_updates /\ changed \subseteq ShippedProducts
       /\ \/ demonstrate_data_deletion
          \/ \E k \in CustomerIds : sp_DeleteCustomer(k)
          \/ sp_GenerateSalesReport(2024, 1)
          \/ insert_sample_data
          => changed = {}]_vars

\* C26 witness: stock below the sample stock after an order item, and the
\* deletion has removed that order item with its order.
C26_Witness ==
  /\ stock[1] < SampleStock(1)
  /\ order_items = {}
  /\ ~(\E o \in orders : o.order_id = order_id_to_delete)
  /\ result["c1"].kind = "committed"

\* C27 (SpecStock): no update of a product's stock is lost when order
\* placement and replenishment interleave.  Every step changes the committed
\* stock of a product by exactly what it commits: minus the quantities of
\* the order items a committing transaction created for it, plus the
\* quantity of a successful sp_AddProductStock; so the stock is the initial
\* stock plus all replenishments minus all committed orders.
C27_NoLostUpdate ==
  [][\A p \in ProductIds :
       LET RECURSIVE Total(_)
           Total(S) == IF S = {} THEN 0
                       ELSE LET r == CHOOSE x \in S : TRUE
                            IN r.quantity + Total(S \ {r})
           Ordered(c) == Total({r \in ins[c] : r.product_id = p})
       IN /\ \A c \in Clients : Commit(c) => stock'[p] = stock[p] - Ordered(c)
          /\ \A q \in StockAdditions :
               sp_AddProductStock(p, q) /\ AddProductStockError(p, q) = "none"
                 => stock'[p] = stock[p] + q
          /\ ~(\/ \E c \in Clients : Commit(c)
               \/ \E q \in StockAdditions : sp_AddProductStock(p, q))
               => stock'[p] = stock[p]]_vars

\* C27 witness: both sessions have committed an order item of quantity 1
\* for product 1 and one unit has been added: stock is 2 + 1 - 2.
C27_Witness ==
  /\ \A c \in Clients : result[c].kind = "committed"
  /\ Cardinality(order_items) = 2
  /\ \A r \in order_items : r.product_id = 1 /\ r.quantity = 1
  /\ stock[1] = SampleStock(1) + 1 - 2

\* C28 (SpecForest): in every committed state each manager_id that is not
\* null is the employee_id of an employee, and no employee is above itself
\* in the manager relation: following manager_id from an employee never
\* comes back to it.
C28_ManagerForest ==
  LET ManagersOf(S) == {x.manager_id : x \in {y \in employees : y.employee_id \in S}} \ {NULL}
      RECURSIVE Above(_, _)
      Above(S, n) == IF n = 0 THEN {} ELSE ManagersOf(S) \cup Above(ManagersOf(S), n - 1)
  IN \A e \in employees :
       /\ e.manager_id # NULL => e.manager_id \in EmployeeIdsOf(employees)
       /\ e.employee_id \notin Above({e.employee_id}, Cardinality(employees))

\* C29 (FairResolve): the hierarchy query, once begun on a set of employees
\* whose manager relation has no cycle, comes to its end: the working table
\* comes back empty and the rows are fetched.
C29_ResolutionTerminates ==
  LET ManagersOf(S) == {x.manager_id : x \in {y \in cte.E : y.employee_id \in S}} \ {NULL}
      RECURSIVE Above(_, _)
      Above(S, n) == IF n = 0 THEN {} ELSE ManagersOf(S) \cup Above(ManagersOf(S), n - 1)
      Acyclic == \A e \in cte.E : e.employee_id \notin Above({e.employee_id}, Cardinality(cte.E))
  IN (cte.stage = "running" /\ Acyclic) ~> (cte.stage = "done")

\* C29 witness: the query has ended on three employees in a chain, with a
\* row at level 2.
C29_Witness ==
  /\ cte.stage = "done"
  /\ Cardinality(cte.E) = 3
  /\ \A e \in cte.E : e.manager_id # e.employee_id
  /\ \E i \in 1..Len(hierarchy) : hierarchy[i].level = 2

\* C30 (SpecRace): sp_DeleteCustomer acts as one step against order
\* creation: when its DELETE runs, the customer has no committed order, as
\* its test found, so no order committed after the test is removed with the
\* customer.
C30_DeleteCustomerAtomic ==
  [][DeleteCustomerDelete => ~(\E o \in orders : o.customer_id = passed)]_vars

====
